---- MODULE Spec2Model ----
(***************************************************************************)
(* Resolution-and-relay proxy of YTDownloader.                             *)
(*   app.py  : FastAPI variant, handlers get_info and download (proxied    *)
(*             relay through StreamingResponse).                           *)
(*   app1.py : Flask variant, handlers get_info_get, get_info_post and     *)
(*             download_post (redirect delivery, optional cookies upload). *)
(* The extraction capability (yt_dlp.YoutubeDL.extract_info), the resolved *)
(* source (requests.get) and the file system are the environment: their    *)
(* answers are nondeterministic choices.                                   *)
(***************************************************************************)
EXTENDS Integers, Sequences, FiniteSets, TLC

VARIABLES
    pc,            \* per request: position of its handler
    req,           \* per request: handler and request parameters
    opts,          \* per request: the ydl_opts copy handed to YoutubeDL
    callno,        \* per request: number of the extract_info call it made (0: none)
    resp,          \* per request: the response as the client sees it
    cookies_path,  \* per request: the handler's local cookies_path
    fs,            \* temp files that exist on disk (named by the creating request)
    ncalls,        \* extract_info calls made so far
    sent,          \* per request: chunks relayed to the client so far
    p_info,        \* a handler on its own: the answer of extract_info it is given
    p_itag,        \* a handler on its own: the itag parameter of the request
    p_fn,          \* a handler on its own: the handler that ran
    p_out          \* a handler on its own: its response

serverVars == <<pc, req, opts, callno, resp, cookies_path, fs, ncalls, sent>>
pureVars == <<p_info, p_itag, p_fn, p_out>>
vars == <<pc, req, opts, callno, resp, cookies_path, fs, ncalls, sent,
          p_info, p_itag, p_fn, p_out>>

(***************************************************************************)
(* Bounds.                                                                 *)
(***************************************************************************)
NumReq == 2        \* requests the server handles, concurrently
MaxFormats == 2    \* length of a raw format list
MaxChunks == 1     \* chunks of a relayed body
MaxTitleLen == 3   \* characters of a title
MaxThumbs == 2     \* length of a thumbnail candidate list

Req == 1..NumReq

(***************************************************************************)
(* Python values.  A str is a sequence of one-character strings.           *)
(***************************************************************************)
PyNone == [t |-> "none"]
Missing == [t |-> "missing"]          \* key absent from a dict
Str(s) == [t |-> "str", s |-> s]
PyInt(n) == [t |-> "int", n |-> n]

\* bool(v)
Truthy(v) ==
    CASE v.t = "str" -> v.s # <<>>
      [] v.t = "int" -> v.n # 0
      [] v.t = "url" -> TRUE
      [] v.t = "list" -> v.v # <<>>
      [] OTHER -> FALSE

\* dict.get(key): an absent key reads as None
Get(v) == IF v.t = "missing" THEN PyNone ELSE v

\* dict.get(key, default)
GetOr(v, default) == IF v.t = "missing" THEN default ELSE v

\* a or b
PyOr(a, b) == IF Truthy(a) THEN a ELSE b

LetterChars == {"a", "b", "d", "e", "g", "h", "i", "k", "l", "m", "n", "o", "p", "r", "s",
                "t", "u", "v", "w", "x", "z", "A", "D", "H", "N", "S", "U"}
DigitChars == {"0", "1", "2", "3", "4", "5", "6", "7", "8", "9"}
Whitespace == {" "}

\* str.isalnum() of one character
IsAlnum(c) == c \in LetterChars \cup DigitChars

\* str.startswith
StartsWith(s, p) == Len(s) >= Len(p) /\ SubSeq(s, 1, Len(p)) = p

\* sub in s
Contains(s, sub) ==
    \E i \in 1..(Len(s) - Len(sub) + 1) : SubSeq(s, i, i + Len(sub) - 1) = sub

\* str.replace(old, new): leftmost occurrences, not overlapping
RECURSIVE Replace(_, _, _)
Replace(s, old, new) ==
    IF s = <<>> THEN <<>>
    ELSE IF StartsWith(s, old)
         THEN new \o Replace(SubSeq(s, Len(old) + 1, Len(s)), old, new)
         ELSE <<s[1]>> \o Replace(Tail(s), old, new)

RECURSIVE LStrip(_)
LStrip(s) == IF s # <<>> /\ s[1] \in Whitespace THEN LStrip(Tail(s)) ELSE s

RECURSIVE RStrip(_)
RStrip(s) ==
    IF s # <<>> /\ s[Len(s)] \in Whitespace THEN RStrip(SubSeq(s, 1, Len(s) - 1)) ELSE s

\* str.strip()
Strip(s) == RStrip(LStrip(s))

\* "".join(c for c in s if keep(c))
RECURSIVE FilterChars(_, _)
FilterChars(s, keep) ==
    IF s = <<>> THEN <<>>
    ELSE (IF s[1] \in keep THEN <<s[1]>> ELSE <<>>) \o FilterChars(Tail(s), keep)

\* str(n) of a natural number
RECURSIVE Decimal(_)
Decimal(n) ==
    LET d == <<"0", "1", "2", "3", "4", "5", "6", "7", "8", "9">>[(n % 10) + 1]
    IN  IF n < 10 THEN <<d>> ELSE Decimal(n \div 10) \o <<d>>

(***************************************************************************)
(* String literals of the source.                                          *)
(***************************************************************************)
S_http == <<"h", "t", "t", "p">>
S_none == <<"n", "o", "n", "e">>
S_DASH == <<"D", "A", "S", "H">>
S_dashDASH == <<"-", "D", "A", "S", "H">>
S_Unknown == <<"U", "n", "k", "n", "o", "w", "n">>
S_NA == <<"N", "/", "A">>
S_video == <<"v", "i", "d", "e", "o">>

(***************************************************************************)
(* Responses.  status is the HTTP status; kind tells a JSON body, an error *)
(* body, a streamed body or a redirect apart; loc is the locator the       *)
(* response delivers (streams from, or redirects to); stem is the filename *)
(* stem of Content-Disposition; aborted: the body broke off after the      *)
(* status line had been sent; upstream is how the fetch of the resolved    *)
(* source went.                                                            *)
(***************************************************************************)
NoResp == [status |-> 0, kind |-> "none", loc |-> PyNone, body |-> PyNone,
           stem |-> PyNone, upstream |-> "none", aborted |-> FALSE]
ErrorResp(code) == [NoResp EXCEPT !.status = code, !.kind = "error"]
JsonResp(body) == [NoResp EXCEPT !.status = 200, !.kind = "json", !.body = body]

Raise(exc) == [t |-> "raise", exc |-> exc]

\* a raw format entry of the metadata document, and the entry {} with no key
RawFormat(id, url, vcodec, acodec, note, height, quality) ==
    [t |-> "dict", format_id |-> id, url |-> url, vcodec |-> vcodec, acodec |-> acodec,
     format_note |-> note, height |-> height, quality |-> quality]
EmptyDict == RawFormat(Missing, Missing, Missing, Missing, Missing, Missing, Missing)
List(v) == [t |-> "list", v |-> v]

(***************************************************************************)
(* Metadata normaliser: the format loop of the three Describe handlers.    *)
(* The container, mimeType and bitrate of a descriptor are verbatim copies *)
(* of the raw entry's ext, mime_type and abr and are left out.             *)
(***************************************************************************)
\* the filter without its url test
KeepFormat_AnyUrl(f) == Get(f.vcodec) # Str(S_none) \/ Get(f.acodec) # Str(S_none)

\* the filter of the loop: a url and at least one track
KeepFormat(f) ==
    Truthy(Get(f.url))
    /\ (Get(f.vcodec) # Str(S_none) \/ Get(f.acodec) # Str(S_none))

\* app.py get_info: quality_label of one raw entry, or the TypeError of
\* `'DASH' in quality_label` on a number
GetInfoQualityLabel(f) ==
    LET q0 == PyOr(Get(f.format_note), Get(f.quality))
    IN  IF ~Truthy(q0) THEN PyOr(q0, Str(S_Unknown))
        ELSE IF q0.t # "str" THEN Raise("TypeError")
        ELSE IF Contains(q0.s, S_DASH)
             THEN PyOr(Str(Strip(Replace(q0.s, S_dashDASH, <<>>))), Str(S_Unknown))
             ELSE q0

\* app1.py: f.get("format_note") or (f.get("height") and f"{f['height']}p") or "N/A"
App1QualityLabel(f) ==
    LET h == Get(f.height)
        hp == IF Truthy(h) THEN Str(Decimal(h.n) \o <<"p">>) ELSE h
    IN  PyOr(PyOr(Get(f.format_note), hp), Str(S_NA))

Descriptor(f, label) ==
    [itag |-> Get(f.format_id), qualityLabel |-> label,
     hasVideo |-> Get(f.vcodec) # Str(S_none),
     hasAudio |-> Get(f.acodec) # Str(S_none)]

\* app.py get_info: for f in info.get('formats', []) ... formats.append(...)
RECURSIVE GetInfoFormats(_, _)
GetInfoFormats(raw, acc) ==
    IF raw = <<>> THEN List(acc)
    ELSE IF ~KeepFormat(raw[1]) THEN GetInfoFormats(Tail(raw), acc)
    ELSE LET label == GetInfoQualityLabel(raw[1])
         IN  IF label.t = "raise" THEN label
             ELSE GetInfoFormats(Tail(raw), Append(acc, Descriptor(raw[1], label)))

\* app1.py get_info_get / get_info_post: the same loop with app1's label
RECURSIVE App1Formats(_, _)
App1Formats(raw, acc) ==
    IF raw = <<>> THEN List(acc)
    ELSE IF ~KeepFormat(raw[1]) THEN App1Formats(Tail(raw), acc)
    ELSE App1Formats(Tail(raw), Append(acc, Descriptor(raw[1], App1QualityLabel(raw[1]))))

\* info.get('thumbnails', [{}])[-1].get('url', '')
LastThumbnailUrl(doc) ==
    LET l == GetOr(doc.thumbnails, List(<<[url |-> Missing]>>))
    IN  IF l.t # "list" THEN Raise("TypeError")
        ELSE IF l.v = <<>> THEN Raise("IndexError")
        ELSE GetOr(l.v[Len(l.v)].url, Str(<<>>))

\* app.py get_info and app1.py get_info_post:
\* info.get('thumbnail') or info.get('thumbnails', [{}])[-1].get('url', '')
ThumbnailOr(doc) ==
    IF Truthy(Get(doc.thumbnail)) THEN Get(doc.thumbnail) ELSE LastThumbnailUrl(doc)

\* app1.py get_info_get (the stray quote of line 102 read as a double quote):
\* (thumbnail or last) if thumbnail is None else thumbnail
ThumbnailIfNone(doc) ==
    IF Get(doc.thumbnail) = PyNone THEN LastThumbnailUrl(doc) ELSE Get(doc.thumbnail)

RawFormats(doc) == GetOr(doc.formats, List(<<>>)).v

MediaInfo(thumbnail, formats) ==
    [t |-> "info", thumbnail |-> thumbnail, formats |-> formats.v]

\* app.py get_info, from the answer of extract_info to the response: every
\* exception, including the one raised for info is None, becomes a 500
GetInfoResponse(i) ==
    IF i.t # "dict" THEN ErrorResp(500)
    ELSE LET formats == GetInfoFormats(RawFormats(i), <<>>)
             thumbnail == ThumbnailOr(i)
         IN  IF formats.t = "raise" \/ thumbnail.t = "raise" THEN ErrorResp(500)
             ELSE JsonResp(MediaInfo(thumbnail, formats))

\* app1.py: except DownloadError -> 400, except Exception -> 500
App1ErrorResp(i) ==
    IF i.t = "raise" /\ i.exc = "DownloadError" THEN ErrorResp(400) ELSE ErrorResp(500)

\* app1.py get_info_get
GetInfoGetResponse(i) ==
    IF i.t # "dict" THEN App1ErrorResp(i)
    ELSE LET formats == App1Formats(RawFormats(i), <<>>)
             thumbnail == ThumbnailIfNone(i)
         IN  IF thumbnail.t = "raise" THEN ErrorResp(500)
             ELSE JsonResp(MediaInfo(thumbnail, formats))

\* app1.py get_info_post
GetInfoPostResponse(i) ==
    IF i.t # "dict" THEN App1ErrorResp(i)
    ELSE LET formats == App1Formats(RawFormats(i), <<>>)
             thumbnail == ThumbnailOr(i)
         IN  IF thumbnail.t = "raise" THEN ErrorResp(500)
             ELSE JsonResp(MediaInfo(thumbnail, formats))

(***************************************************************************)
(* Filename stem of Content-Disposition.                                   *)
(***************************************************************************)
\* app.py download:
\* info.get('title', 'video').replace('/', '_').replace('\\', '_').replace('"', '_').replace("'", "_")
DownloadTitle(title) ==
    LET v == GetOr(title, Str(S_video))
    IN  IF v.t # "str" THEN Raise("AttributeError")
        ELSE Str(Replace(Replace(Replace(Replace(v.s, <<"/">>, <<"_">>),
                                         <<"\\">>, <<"_">>), <<"\"">>, <<"_">>),
                         <<"'">>, <<"_">>))

\* app1.py download_post:
\* "".join(c for c in title if c.isalnum() or c in (" ", "_", "-")).strip().replace(" ", "_")
DownloadPostSafeTitle(title) ==
    LET v == GetOr(title, Str(S_video))
    IN  IF v.t # "str" THEN Raise("TypeError")
        ELSE Str(Replace(Strip(FilterChars(v.s, LetterChars \cup DigitChars \cup {" ", "_", "-"})),
                         <<" ">>, <<"_">>))

(***************************************************************************)
(* Format resolver and relay: the two Fetch handlers.                      *)
(***************************************************************************)
\* app.py YDL_OPTS_INFO['format'] and app1.py BASE_YDL_OPTS["format"]
YDL_OPTS_INFO_format == Str(<<"b", "e", "s", "t", "v", "i", "d", "e", "o", "[", "e", "x", "t", "=", "m", "p", "4", "]", "+", "b", "e", "s", "t", "a", "u", "d", "i", "o", "[", "e", "x", "t", "=", "m", "4", "a", "]", "/", "b", "e", "s", "t">>)
BASE_YDL_OPTS_format == Str(<<"b", "e", "s", "t", "v", "i", "d", "e", "o", "+", "b", "e", "s", "t", "a", "u", "d", "i", "o", "/", "b", "e", "s", "t">>)

\* the copy of the base options left as it is
DownloadFormatOption_Base(itag) == BASE_YDL_OPTS_format

\* ydl_opts['format'] = itag
DownloadFormatOption(itag) == Str(itag)

StreamResp(loc, stem) ==
    [NoResp EXCEPT !.status = 200, !.kind = "stream", !.loc = loc, !.stem = stem]
RedirectResp(loc, stem) ==
    [NoResp EXCEPT !.status = 302, !.kind = "redirect", !.loc = loc, !.stem = stem]

\* app.py download: chosen_format = info.get('formats', [{}])[0]
DownloadChosen(i) ==
    LET l == GetOr(i.formats, List(<<EmptyDict>>))
    IN  IF l.v = <<>> THEN Raise("IndexError") ELSE l.v[1]

\* app.py download, from the answer of extract_info to the response.  The
\* HTTPException(404) is raised inside the try block and `except Exception`
\* catches it: the client gets the 500 of line 146.
DownloadResponse(i) ==
    IF i.t # "dict" THEN ErrorResp(500)
    ELSE LET chosen == DownloadChosen(i)
         IN  IF chosen.t = "raise" THEN ErrorResp(500)
             ELSE IF ~Truthy(Get(chosen.url)) THEN ErrorResp(500)
             ELSE LET title == DownloadTitle(i.title)
                  IN  IF title.t = "raise" THEN ErrorResp(500)
                      ELSE StreamResp(Get(chosen.url), title)

\* app1.py download_post:
\* next((f for f in info.get("formats", []) if f.get("format_id") == itag), None)
RECURSIVE DownloadPostChosen(_, _)
DownloadPostChosen(raw, itag) ==
    IF raw = <<>> THEN PyNone
    ELSE IF Get(raw[1].format_id) = Str(itag) THEN raw[1]
    ELSE DownloadPostChosen(Tail(raw), itag)

\* app1.py download_post, from the answer of extract_info to the response
DownloadPostResponse(i, itag) ==
    IF i.t = "raise" THEN App1ErrorResp(i)
    ELSE IF i.t # "dict" THEN ErrorResp(500)
    ELSE LET chosen == DownloadPostChosen(RawFormats(i), itag)
         IN  IF chosen = PyNone \/ ~Truthy(Get(chosen.url)) THEN ErrorResp(404)
             ELSE LET title == DownloadPostSafeTitle(i.title)
                  IN  IF title.t = "raise" THEN ErrorResp(500)
                      ELSE RedirectResp(Get(chosen.url), title)

(***************************************************************************)
(* The environment of the server: request parameters, and the answers of   *)
(* the extraction capability.                                              *)
(***************************************************************************)
U_not_a_url == <<"n", "o", "t", "-", "a", "-", "u", "r", "l">>
U_httpx == <<"h", "t", "t", "p", "x">>
U_good == <<"h", "t", "t", "p", "s", ":", "/", "/", "e", ".", "t", "/", "v">>
Urls == {<<>>, U_not_a_url, U_httpx, U_good}

\* a well-formed absolute URL with an http or https scheme
WellFormedUrl(url) ==
    \E scheme \in {<<"h", "t", "t", "p", ":", "/", "/">>, <<"h", "t", "t", "p", "s", ":", "/", "/">>} :
        StartsWith(url, scheme) /\ Len(url) > Len(scheme) /\ url[Len(scheme) + 1] # "/"

ProbeIds == {<<"1", "8">>, <<"2", "2">>}
Itags == {<<>>, <<"2", "2">>, <<"z", "z">>}

\* the locator of the entry at position pos of the answer to call number call,
\* which was made with the format option scope
Locator(call, scope, pos) == [t |-> "url", call |-> call, scope |-> scope, pos |-> pos]

ServerTitle == Str(<<"a", " ", "b">>)

\* the shapes of a format list: per entry its id and whether it has a url
FormatShapes == UNION {[1..n -> ProbeIds \X BOOLEAN] : n \in 0..MaxFormats}

ServerDoc(call, scope, shape) ==
    [t |-> "dict", title |-> ServerTitle, thumbnail |-> Str(<<"t">>), thumbnails |-> Missing,
     formats |-> List([k \in DOMAIN shape |->
        RawFormat(Str(shape[k][1]),
                  IF shape[k][2] THEN Locator(call, scope, k) ELSE PyNone,
                  Missing, Missing, Missing, Missing, Missing)])]

\* what extract_info(url, download=False) can answer to call number call
ExtractOutcomes(call, scope) ==
    {Raise("DownloadError"), Raise("Exception"), PyNone}
    \cup {[ServerDoc(call, scope, <<>>) EXCEPT !.formats = Missing]}
    \cup {ServerDoc(call, scope, shape) : shape \in FormatShapes}

Idle == [handler |-> "none", url |-> <<>>, itag |-> <<>>, cookies |-> FALSE]
NoOpts == [format |-> PyNone, cookiefile |-> PyNone]
Path(r) == [t |-> "path", p |-> r]

ServerIdle ==
    /\ pc = [r \in Req |-> "idle"]
    /\ req = [r \in Req |-> Idle]
    /\ opts = [r \in Req |-> NoOpts]
    /\ callno = [r \in Req |-> 0]
    /\ resp = [r \in Req |-> NoResp]
    /\ cookies_path = [r \in Req |-> PyNone]
    /\ fs = {}
    /\ ncalls = 0
    /\ sent = [r \in Req |-> 0]

PureIdle == /\ p_info = PyNone /\ p_itag = <<>> /\ p_fn = "none" /\ p_out = NoResp

Init == ServerIdle /\ PureIdle

\* the handler answers without calling the extraction capability
Reject(r, request, response) ==
    /\ req' = [req EXCEPT ![r] = request]
    /\ resp' = [resp EXCEPT ![r] = response]
    /\ pc' = [pc EXCEPT ![r] = "responded"]
    /\ UNCHANGED <<opts, callno, ncalls, sent>>

\* with YoutubeDL(ydl_opts) as ydl: info = ydl.extract_info(url, download=False)
\* is entered: the handler waits for the extraction capability
CallExtract(r, request, ydl_opts) ==
    /\ req' = [req EXCEPT ![r] = request]
    /\ opts' = [opts EXCEPT ![r] = ydl_opts]
    /\ ncalls' = ncalls + 1
    /\ callno' = [callno EXCEPT ![r] = ncalls + 1]
    /\ pc' = [pc EXCEPT ![r] = "extracting"]
    /\ UNCHANGED <<resp, sent>>

\* the answers extract_info can give to the call request r is waiting for
Answers(r) == ExtractOutcomes(callno[r], opts[r].format.s)

\* what the server model keeps of a response: the JSON body of a Describe
\* response is a function of the answer alone and is dropped here
Sent(response) == [response EXCEPT !.body = PyNone]

(***************************************************************************)
(* app.py                                                                  *)
(***************************************************************************)
\* get_info, lines 37-43
GetInfo_Begin(r) ==
    /\ pc[r] = "idle"
    /\ \E url \in Urls :
        LET request == [Idle EXCEPT !.handler = "get_info", !.url = url]
        IN  IF ~StartsWith(url, S_http)
            THEN Reject(r, request, ErrorResp(400))
            ELSE CallExtract(r, request, [NoOpts EXCEPT !.format = YDL_OPTS_INFO_format])
    /\ UNCHANGED <<cookies_path, fs, pureVars>>

\* get_info, lines 43-82: extract_info answers and the handler runs to its end
GetInfo_Finish(r) ==
    /\ pc[r] = "extracting" /\ req[r].handler = "get_info"
    /\ \E i \in Answers(r) : resp' = [resp EXCEPT ![r] = Sent(GetInfoResponse(i))]
    /\ pc' = [pc EXCEPT ![r] = "responded"]
    /\ UNCHANGED <<req, opts, callno, cookies_path, fs, ncalls, sent, pureVars>>

\* download, lines 86-98
Download_Begin(r) ==
    /\ pc[r] = "idle"
    /\ \E url \in Urls, itag \in Itags :
        LET request == [Idle EXCEPT !.handler = "download", !.url = url, !.itag = itag]
        IN  IF ~StartsWith(url, S_http)
            THEN Reject(r, request, ErrorResp(400))
            ELSE CallExtract(r, request, [NoOpts EXCEPT !.format = DownloadFormatOption(itag)])
    /\ UNCHANGED <<cookies_path, fs, pureVars>>

\* download, lines 98-146: extract_info answers and the handler runs to its
\* end: an error response, or the StreamingResponse whose status line and
\* headers go out before iterfile() runs its first statement
Download_Finish(r) ==
    /\ pc[r] = "extracting" /\ req[r].handler = "download"
    /\ \E i \in Answers(r) :
        LET response == DownloadResponse(i)
        IN  /\ resp' = [resp EXCEPT ![r] = response]
            /\ pc' = [pc EXCEPT ![r] = IF response.kind = "stream" THEN "streaming"
                                       ELSE "responded"]
    /\ UNCHANGED <<req, opts, callno, cookies_path, fs, ncalls, sent, pureVars>>

\* iterfile, lines 134-135: requests.get(stream_url, ...) and raise_for_status().
\* An exception leaves the generator while the framework iterates the body.
Download_StreamOpen(r) ==
    /\ pc[r] = "streaming"
    /\ \E result \in {"ok", "ConnectionError", "Timeout", "HTTPError"} :
        /\ resp' = [resp EXCEPT ![r].upstream = result, ![r].aborted = (result # "ok")]
        /\ pc' = [pc EXCEPT ![r] = IF result = "ok" THEN "relaying" ELSE "responded"]
    /\ UNCHANGED <<req, opts, callno, cookies_path, fs, ncalls, sent, pureVars>>

\* iterfile, lines 136-138: one chunk to the client
Download_StreamChunk(r) ==
    /\ pc[r] = "relaying" /\ sent[r] < MaxChunks
    /\ sent' = [sent EXCEPT ![r] = sent[r] + 1]
    /\ UNCHANGED <<pc, req, opts, callno, resp, cookies_path, fs, ncalls, pureVars>>

\* iterfile, line 136: iter_content ends, or raises because the source dropped
Download_StreamEnd(r) ==
    /\ pc[r] = "relaying"
    /\ \E dropped \in BOOLEAN :
        resp' = [resp EXCEPT ![r].aborted = dropped,
                             ![r].upstream = IF dropped THEN "ConnectionError" ELSE "ok"]
    /\ pc' = [pc EXCEPT ![r] = "responded"]
    /\ UNCHANGED <<req, opts, callno, cookies_path, fs, ncalls, sent, pureVars>>

(***************************************************************************)
(* app1.py                                                                 *)
(***************************************************************************)
\* get_info_get, lines 73-80
GetInfoGet_Begin(r) ==
    /\ pc[r] = "idle"
    /\ \E url \in Urls :
        LET request == [Idle EXCEPT !.handler = "get_info_get", !.url = url]
        IN  IF url = <<>>
            THEN Reject(r, request, ErrorResp(400))
            ELSE CallExtract(r, request, [NoOpts EXCEPT !.format = BASE_YDL_OPTS_format])
    /\ UNCHANGED <<cookies_path, fs, pureVars>>

\* get_info_get, lines 80-112
GetInfoGet_Finish(r) ==
    /\ pc[r] = "extracting" /\ req[r].handler = "get_info_get"
    /\ \E i \in Answers(r) : resp' = [resp EXCEPT ![r] = Sent(GetInfoGetResponse(i))]
    /\ pc' = [pc EXCEPT ![r] = "responded"]
    /\ UNCHANGED <<req, opts, callno, cookies_path, fs, ncalls, sent, pureVars>>

\* The head of a handler that takes a cookies upload (get_info_post lines
\* 123-139, download_post lines 191-210).  _use_temp_cookies_file creates the
\* temp file (NamedTemporaryFile(delete=False)), then writes the upload to it;
\* when the write raises it closes the file and re-raises, and the handler's
\* cookies_path is still None when `except Exception` and `finally` run.
CookiesBegin(r, request, format, writeOk) ==
    IF ~request.cookies
    THEN /\ CallExtract(r, request, [NoOpts EXCEPT !.format = format])
         /\ UNCHANGED <<cookies_path, fs>>
    ELSE IF writeOk
    THEN /\ fs' = fs \cup {Path(r)}
         /\ cookies_path' = [cookies_path EXCEPT ![r] = Path(r)]
         /\ CallExtract(r, request, [format |-> format, cookiefile |-> Path(r)])
    ELSE /\ fs' = fs \cup {Path(r)}
         /\ UNCHANGED cookies_path
         /\ Reject(r, request, ErrorResp(500))

\* finally: if cookies_path and os.path.exists(cookies_path): os.remove(...),
\* whose exception is logged and dropped
CookiesFinally(r, removeOk) ==
    /\ fs' = IF cookies_path[r] # PyNone /\ cookies_path[r] \in fs /\ removeOk
             THEN fs \ {cookies_path[r]}
             ELSE fs
    /\ UNCHANGED cookies_path

\* get_info_post, lines 123-139
GetInfoPost_Begin(r) ==
    /\ pc[r] = "idle"
    /\ \E url \in Urls, cookies \in BOOLEAN, writeOk \in BOOLEAN :
        LET request == [Idle EXCEPT !.handler = "get_info_post", !.url = url,
                                    !.cookies = cookies]
        IN  /\ (cookies /\ url # <<>>) \/ writeOk
            /\ IF url = <<>>
               THEN Reject(r, request, ErrorResp(400)) /\ UNCHANGED <<cookies_path, fs>>
               ELSE CookiesBegin(r, request, BASE_YDL_OPTS_format, writeOk)
    /\ UNCHANGED pureVars

\* get_info_post, lines 139-178
GetInfoPost_Finish(r) ==
    /\ pc[r] = "extracting" /\ req[r].handler = "get_info_post"
    /\ \E i \in Answers(r) : resp' = [resp EXCEPT ![r] = Sent(GetInfoPostResponse(i))]
    /\ \E removeOk \in BOOLEAN :
        /\ cookies_path[r] # PyNone \/ removeOk
        /\ CookiesFinally(r, removeOk)
    /\ pc' = [pc EXCEPT ![r] = "responded"]
    /\ UNCHANGED <<req, opts, callno, ncalls, sent, pureVars>>

\* download_post, lines 191-210
DownloadPost_Begin(r) ==
    /\ pc[r] = "idle"
    /\ \E url \in Urls, itag \in Itags, cookies \in BOOLEAN, writeOk \in BOOLEAN :
        LET request == [Idle EXCEPT !.handler = "download_post", !.url = url,
                                    !.itag = itag, !.cookies = cookies]
        IN  /\ (cookies /\ url # <<>> /\ itag # <<>>) \/ writeOk
            /\ IF url = <<>> \/ itag = <<>>
               THEN Reject(r, request, ErrorResp(400)) /\ UNCHANGED <<cookies_path, fs>>
               ELSE CookiesBegin(r, request, DownloadFormatOption(itag), writeOk)
    /\ UNCHANGED pureVars

\* download_post, lines 210-240
DownloadPost_Finish(r) ==
    /\ pc[r] = "extracting" /\ req[r].handler = "download_post"
    /\ \E i \in Answers(r) :
        resp' = [resp EXCEPT ![r] = DownloadPostResponse(i, req[r].itag)]
    /\ \E removeOk \in BOOLEAN :
        /\ cookies_path[r] # PyNone \/ removeOk
        /\ CookiesFinally(r, removeOk)
    /\ pc' = [pc EXCEPT ![r] = "responded"]
    /\ UNCHANGED <<req, opts, callno, ncalls, sent, pureVars>>

Next ==
    \E r \in Req :
        \/ GetInfo_Begin(r)
        \/ GetInfo_Finish(r)
        \/ Download_Begin(r)
        \/ Download_Finish(r)
        \/ Download_StreamOpen(r)
        \/ Download_StreamChunk(r)
        \/ Download_StreamEnd(r)
        \/ GetInfoGet_Begin(r)
        \/ GetInfoGet_Finish(r)
        \/ GetInfoPost_Begin(r)
        \/ GetInfoPost_Finish(r)
        \/ DownloadPost_Begin(r)
        \/ DownloadPost_Finish(r)

Spec == Init /\ [][Next]_vars

(***************************************************************************)
(* A handler on its own: from the answer of extract_info to the response.  *)
(* The answers are drawn from families of metadata documents, each varying *)
(* the fields one part of a handler reads.                                 *)
(***************************************************************************)
SeqsUpTo(S, n) == UNION {[1..k -> S] : k \in 0..n}

\* format ids as upstream numbers them: by position
Numbered(l) == [k \in DOMAIN l |-> [l[k] EXCEPT !.format_id = Str(Decimal(k))]]

Doc(title, thumbnail, thumbnails, formats) ==
    [t |-> "dict", title |-> title, thumbnail |-> thumbnail, thumbnails |-> thumbnails,
     formats |-> formats]

S_u == <<"u">>
Codecs == {Missing, Str(S_none), Str(<<"a", "v">>)}

\* entries that differ in what the filter of the format loop reads
FilterEntries ==
    {RawFormat(Missing, url, vcodec, acodec, Missing, Missing, Missing) :
        url \in {PyNone, Str(<<>>), Str(S_u)}, vcodec \in Codecs, acodec \in Codecs}

Notes == {PyNone, Str(<<>>), Str(<<"H", "D">>), Str(<<"D", "A", "S", "H", " ", "a">>),
          Str(<<"a", "-", "D", "A", "S", "H">>)}
Heights == {PyNone, PyInt(720)}
Qualities == {PyNone, PyInt(5), Str(<<"h", "d">>)}

\* entries that differ in what the quality label is derived from
LabelEntries ==
    {RawFormat(Missing, Str(S_u), Missing, Missing, note, height, quality) :
        note \in Notes, height \in Heights, quality \in Qualities}

Thumbnails == {Missing, PyNone, Str(<<"t">>)}
Candidates == {[url |-> u] : u \in {Missing, Str(<<"1">>), Str(<<"2">>)}}

TitleChars == {"a", "7", " ", "_", "-", "/", ":"}

FormatDocs ==
    {Doc(ServerTitle, Str(<<"t">>), Missing, List(Numbered(l))) :
        l \in SeqsUpTo(FilterEntries, MaxFormats) \cup SeqsUpTo(LabelEntries, MaxFormats)}

ThumbnailDocs ==
    {Doc(ServerTitle, thumbnail, thumbnails, List(<<>>)) :
        thumbnail \in Thumbnails,
        thumbnails \in {Missing} \cup {List(l) : l \in SeqsUpTo(Candidates, MaxThumbs)}}

TitleDocs ==
    {Doc(title, Str(<<"t">>), Missing, List(Numbered(<<[EmptyDict EXCEPT !.url = Str(S_u)]>>))) :
        title \in {Missing, PyNone} \cup {Str(x) : x \in SeqsUpTo(TitleChars, MaxTitleLen)}}

PureInputs ==
    ((FormatDocs \cup ThumbnailDocs) \X {<<"2", "2">>})
    \cup (TitleDocs \X {<<"1">>})
    \cup UNION {ExtractOutcomes(1, itag) \X {itag} : itag \in Itags}

PureInit ==
    /\ ServerIdle
    /\ \E input \in PureInputs : p_info = input[1] /\ p_itag = input[2]
    /\ p_fn = "none"
    /\ p_out = NoResp

Ran(fn, response) ==
    /\ p_fn = "none"
    /\ p_fn' = fn
    /\ p_out' = response
    /\ UNCHANGED <<p_info, p_itag, serverVars>>

Run_get_info == Ran("get_info", GetInfoResponse(p_info))
Run_download == Ran("download", DownloadResponse(p_info))
Run_get_info_get == Ran("get_info_get", GetInfoGetResponse(p_info))
Run_get_info_post == Ran("get_info_post", GetInfoPostResponse(p_info))
Run_download_post == Ran("download_post", DownloadPostResponse(p_info, p_itag))

PureNext ==
    \/ Run_get_info
    \/ Run_download
    \/ Run_get_info_get
    \/ Run_get_info_post
    \/ Run_download_post

SpecPure == PureInit /\ [][PureNext]_vars

DescribeFns == {"get_info", "get_info_get", "get_info_post"}
FetchFns == {"download", "download_post"}

(***************************************************************************)
(* Properties.                                                             *)
(***************************************************************************)

\* C1: once a handler that created a temp cookies file has returned, on any
\* exit path, the file does not exist.
C1_ArtifactDeleted == \A r \in Req : pc[r] = "responded" => Path(r) \notin fs

\* C2: a Describe or Fetch request whose url is not a well-formed absolute
\* http(s) URL is answered 400, and extract_info is not called for it.
C2_InvalidUrlRejected ==
    \A r \in Req :
        (pc[r] # "idle" /\ ~WellFormedUrl(req[r].url))
            => (callno[r] = 0 /\ pc[r] = "responded" /\ resp[r].status = 400)

\* the positions of the probe's entries whose id is the requested one
Matches(raw, itag) == {k \in DOMAIN raw : Get(raw[k].format_id) = Str(itag)}
FirstMatch(raw, itag) == CHOOSE k \in Matches(raw, itag) : \A j \in Matches(raw, itag) : k <= j

\* C3: when the probe has no format with the requested id, Fetch answers
\* FormatNotFound (404); and a locator Fetch delivers is the one of the first
\* format of the probe with the requested id.
C3_FirstMatch ==
    (p_fn \in FetchFns /\ p_info.t = "dict") =>
        LET raw == RawFormats(p_info)
        IN  /\ Matches(raw, p_itag) = {} => p_out.status = 404
            /\ p_out.loc # PyNone =>
                /\ Matches(raw, p_itag) # {}
                /\ p_out.loc = Get(raw[FirstMatch(raw, p_itag)].url)

\* C4: a locator a Fetch response delivers comes from the extract_info call
\* this request made, that call was made with the requested itag as its format,
\* and it is the call of no other request.
C4_FreshLocator ==
    \A r \in Req :
        resp[r].loc # PyNone =>
            /\ callno[r] \in 1..ncalls
            /\ resp[r].loc.call = callno[r]
            /\ resp[r].loc.scope = req[r].itag
            /\ \A q \in Req \ {r} : callno[q] # resp[r].loc.call

\* C4 witness: a Fetch delivers a locator after another request's Describe
\* got its catalog from an earlier call.
C4_Witness ==
    \E r \in Req, q \in Req :
        /\ r # q
        /\ resp[r].loc # PyNone
        /\ req[q].handler \in DescribeFns /\ resp[q].kind = "json"
        /\ callno[q] < callno[r]

\* C5: when the fetch of the resolved source fails before a byte was sent,
\* the client gets a clean 502, not a success status with an aborted body.
C5_CleanUpstreamError ==
    \A r \in Req :
        (resp[r].upstream \notin {"none", "ok"} /\ sent[r] = 0)
            => (resp[r].status = 502 /\ ~resp[r].aborted)

\* C6: when the requested format is in the probe but carries no usable
\* locator, Fetch answers SourceNotFound (404), not 502 and not 500.
C6_SourceNotFound ==
    (p_fn \in FetchFns /\ p_info.t = "dict") =>
        LET raw == RawFormats(p_info)
        IN  (Matches(raw, p_itag) # {} /\ ~Truthy(Get(raw[FirstMatch(raw, p_itag)].url)))
                => p_out.status = 404

\* C7: in a successful Describe response every descriptor has hasVideo or
\* hasAudio, comes from a raw entry with a non-empty url, and the descriptors
\* keep the upstream order.
C7_FilteredInOrder ==
    (p_fn \in DescribeFns /\ p_out.kind = "json") =>
        LET raw == RawFormats(p_info)
            out == p_out.body.formats
        IN  \E f \in [1..Len(out) -> 1..Len(raw)] :
                /\ \A j \in 1..Len(out) : \A k \in 1..Len(out) : j < k => f[j] < f[k]
                /\ \A j \in 1..Len(out) :
                    /\ out[j].hasVideo \/ out[j].hasAudio
                    /\ out[j].itag = Get(raw[f[j]].format_id)
                    /\ Truthy(Get(raw[f[j]].url))

\* C7 witness: a successful Describe that dropped one raw entry and kept a
\* later one.
C7_Witness ==
    /\ p_fn \in DescribeFns /\ p_out.kind = "json"
    /\ Len(RawFormats(p_info)) = 2
    /\ Len(p_out.body.formats) = 1
    /\ p_out.body.formats[1].itag = Str(<<"2">>)

\* the label the fallback chain names: note, "<height>p", quality marker, "Unknown"
ChainLabel(f) ==
    IF Truthy(Get(f.format_note)) THEN Get(f.format_note)
    ELSE IF Truthy(Get(f.height)) THEN Str(Decimal(Get(f.height).n) \o <<"p">>)
    ELSE IF Truthy(Get(f.quality))
         THEN (IF Get(f.quality).t = "int" THEN Str(Decimal(Get(f.quality).n))
               ELSE Get(f.quality))
    ELSE Str(S_Unknown)

\* C9: the qualityLabel of a returned descriptor is the first non-empty of
\* note, "<height>p", quality marker, "Unknown" (a label free of "DASH" is
\* returned as it is), and no returned label contains "DASH".
C9_QualityLabel ==
    (p_fn \in DescribeFns /\ p_out.kind = "json") =>
        LET raw == RawFormats(p_info)
            out == p_out.body.formats
        IN  \A j \in 1..Len(out) : \A k \in 1..Len(raw) :
                out[j].itag = Get(raw[k].format_id) =>
                    /\ out[j].qualityLabel.t = "str"
                    /\ ~Contains(out[j].qualityLabel.s, S_DASH)
                    /\ ~Contains(ChainLabel(raw[k]).s, S_DASH)
                        => out[j].qualityLabel = ChainLabel(raw[k])

\* the stem has alphanumerics, underscore and hyphen only
SafeStem(s) == \A k \in 1..Len(s) : IsAlnum(s[k]) \/ s[k] \in {"_", "-"}

\* C8: the filename stem Fetch puts in Content-Disposition is sanitised:
\* alphanumerics, underscore and hyphen only, sanitising it again changes
\* nothing, and proxied relay and redirect give the same stem.
C8_SafeFilename ==
    (p_fn \in FetchFns /\ p_out.stem # PyNone) =>
        /\ SafeStem(p_out.stem.s)
        /\ p_fn = "download" => DownloadTitle(p_out.stem) = p_out.stem
        /\ p_fn = "download_post" => DownloadPostSafeTitle(p_out.stem) = p_out.stem
        /\ DownloadTitle(p_info.title) = DownloadPostSafeTitle(p_info.title)

\* C10: Describe answers every metadata document with a MediaInfo whose
\* thumbnail is the explicit field when present, else the url of the last
\* candidate, and null or empty when there is no candidate.  Stated for the
\* documents without formats, whose response the thumbnail fields alone decide.
C10_Thumbnail ==
    (p_fn \in DescribeFns /\ p_info.t = "dict" /\ RawFormats(p_info) = <<>>) =>
        /\ p_out.kind = "json"
        /\ LET explicit == Get(p_info.thumbnail)
               list == GetOr(p_info.thumbnails, List(<<>>)).v
               thumbnail == p_out.body.thumbnail
           IN  IF Truthy(explicit) THEN thumbnail = explicit
               ELSE IF list # <<>> /\ Truthy(Get(list[Len(list)].url))
                    THEN thumbnail = Get(list[Len(list)].url)
                    ELSE thumbnail \in {PyNone, Str(<<>>)}

====
